---------------------------- MODULE Spec2Model ----------------------------
(***************************************************************************)
(* A model of the forkscan collector core: the collector thread's cycle    *)
(* (garbage_collect: aggregate, signal barrier, fork, child scan, parallel *)
(* reference-count sweep, redistribution of survivors) and the mutators'   *)
(* signal handler (forkgc_wait_for_snapshot).                              *)
(*                                                                         *)
(* Arrays are functions over 0..n-1, so that index arithmetic reads as in  *)
(* the C source.  An address is a natural number; block addresses are even *)
(* (block aligned), the low bit of an address slot is the collected flag.  *)
(***************************************************************************)
EXTENDS Integers, Sequences, FiniteSets, TLC

(***************************************************************************)
(* Bounds of the model.                                                    *)
(***************************************************************************)
\* Heap blocks the mutators may retire are 2, 4, .. 2 * MaxBlocks.
MaxBlocks == 2
\* Number of blocks of the linked chain the mutators retire in SpecChain.
ChainLength == 3
\* Batches, of one block each, the mutators pass in SpecQueue and FairQueue.
QueueBatches == 3
\* Arrays given to forkgc_util_sort in SpecUtil: every array of up to
\* MaxExhaustive elements with values 0..MaxValue, and the arrays of up to
\* MaxLength elements (o + s * i + q * i * i) % m, m in 1..MaxModulus, with
\* s, o and q below MaxModulus.
MaxExhaustive == 4
MaxValue == 2
MaxLength == 19
MaxModulus == 5
\* Number of words of every heap block.
WordsPerBlock == 1
\* Largest capacity of a batch handed to forkgc_initiate_collection.
MaxCapacity == 2
\* Returns of pthread_cond_wait that no signal caused, and batches, of one
\* block each, the mutators pass in SpecWake.
MaxSpurious == 1
WakeBatches == 2
\* Thread records, each of a thread that exits and is joined, and threads
\* that look records up by a stack address, in SpecRegistry.
MaxRecords == 2
MaxWalkers == 2
\* Free lists pushed, each by a call of its own, threads that pop, and calls
\* of forkgc_util_pop_free_list by each of them, in SpecStash.
MaxLists == 3
MaxPoppers == 2
MaxPops == 2

(***************************************************************************)
(* Program constants.  ADDRS_PER_THREAD and UNREF_DEPTH are scaled down to *)
(* the sizes of the arrays of the model (128 * 1024 and 30 in the source), *)
(* so that several sweep workers run on an array of two or three slots.    *)
(***************************************************************************)
MAX_THREADS == 80
ADDRS_PER_THREAD == 2
UNREF_DEPTH == 1
SORT_THRESHOLD == 16
\* sizeof(size_t)
WORD_SIZE == 8
\* PAGESIZE / sizeof(size_t), the stride of the minimap (scaled from 512).
PTRS_PER_PAGE == 2

\* The heap blocks 2, 4, .. 2 * n.
Blocks(n) == {2 * b : b \in 1..n}
Pool ==
    Blocks(MaxBlocks) \cup Blocks(ChainLength) \cup Blocks(QueueBatches)
        \cup Blocks(WakeBatches)
\* The values a word of memory may hold: nothing, a block address, and the
\* lowest block address with its low bit set (a tagged pointer).
Words == {0} \cup Pool \cup {3}

NoArray == [i \in {} |-> 0]
\* The array holding the elements of sequence s.
ArrayOf(s) == [i \in 0..(Len(s) - 1) |-> s[i + 1]]
\* The first n elements of array a.
Prefix(a, n) == [i \in 0..(n - 1) |-> a[i]]

\* PTR_MASK: the address with the collected flag cleared.
PTR_MASK(v) == v - (v % 2)
\* v | 1
SetLowBit(v) == PTR_MASK(v) + 1
LowBit(v) == v % 2

(***************************************************************************)
(* util.c: the sort utility.                                               *)
(***************************************************************************)
swap(addrs, n, m) == [addrs EXCEPT ![n] = addrs[m], ![m] = addrs[n]]

RECURSIVE partition_loop(_, _, _, _, _)
partition_loop(addrs, i, max, mid, pivot_val) ==
    IF i >= max THEN [a |-> addrs, mid |-> mid]
    ELSE IF addrs[i] <= pivot_val
         THEN partition_loop(swap(addrs, i, mid), i + 1, max, mid + 1, pivot_val)
         ELSE partition_loop(addrs, i + 1, max, mid, pivot_val)

\* A variant: the pivot is not moved between the two parts in the end.
partition_unplaced(addrs, min, max) ==
    LET pivot == (max + min) \div 2
        pivot_val == addrs[pivot]
    IN  partition_loop(swap(addrs, pivot, max), min, max, min, pivot_val)

partition(addrs, min, max) ==
    LET pivot == (max + min) \div 2
        pivot_val == addrs[pivot]
        r == partition_loop(swap(addrs, pivot, max), min, max, min, pivot_val)
    IN  [a |-> swap(r.a, r.mid, max), mid |-> r.mid]

RECURSIVE insertion_inner(_, _)
insertion_inner(addrs, j) ==
    IF j > 0 /\ addrs[j - 1] > addrs[j]
    THEN insertion_inner(swap(addrs, j, j - 1), j - 1)
    ELSE addrs

RECURSIVE insertion_outer(_, _, _)
insertion_outer(addrs, i, max) ==
    IF i <= max THEN insertion_outer(insertion_inner(addrs, i), i + 1, max)
    ELSE addrs

insertion_sort(addrs, min, max) == insertion_outer(addrs, min + 1, max)

RECURSIVE quicksort(_, _, _)
quicksort(addrs, min, max) ==
    IF max - min > SORT_THRESHOLD
    THEN LET p == partition(addrs, min, max)
         IN  quicksort(quicksort(p.a, min, p.mid - 1), p.mid + 1, max)
    ELSE insertion_sort(addrs, min, max)

forkgc_util_sort(a, length) == quicksort(a, 0, length - 1)

\* The write position forkgc_util_compact ends with, and the array it leaves.
RECURSIVE compact_loop(_, _, _, _)
compact_loop(a, length, search, write) ==
    IF search >= length THEN [a |-> a, write |-> write]
    ELSE IF a[search] = a[write]
         THEN compact_loop(a, length, search + 1, write)
         ELSE compact_loop(IF write + 1 < search
                           THEN [a EXCEPT ![write + 1] = a[search]] ELSE a,
                           length, search + 1, write + 1)

\* A variant: the last value written is not counted (no ++write at the end).
compact_short(a, length) ==
    IF length < 2 THEN [a |-> a, savings |-> 0]
    ELSE LET r == compact_loop(a, length, 1, 0)
         IN  [a |-> r.a, savings |-> length - r.write]

\* forkgc_util_compact: [a: the array afterwards, savings: the return value]
forkgc_util_compact(a, length) ==
    IF length < 2 THEN [a |-> a, savings |-> 0]
    ELSE LET r == compact_loop(a, length, 1, 0)
         IN  [a |-> r.a, savings |-> length - (r.write + 1)]

(***************************************************************************)
(* __assert_monotonicity: TRUE iff the debug check passes.                 *)
(***************************************************************************)
RECURSIVE monotonic_from(_, _, _, _)
monotonic_from(a, n, i, last) ==
    IF i >= n THEN TRUE
    ELSE IF a[i] <= last THEN FALSE
    ELSE monotonic_from(a, n, i + 1, a[i])

assert_monotonicity(a, n) == monotonic_from(a, n, 0, 0)


(***************************************************************************)
(* The state of the process.                                               *)
(***************************************************************************)
VARIABLES
    util,                \* the array a caller of util.c sorts and compacts
    registry,            \* util.c: the thread list, the thread records, the
                         \* records staged to free, and the threads using them
    stash,               \* util.c: free_list_list and the threads using it
    ndebug,              \* the build: TRUE iff compiled with NDEBUG
    fatal,               \* "" while the process runs, else why it stopped
    threads,             \* the registered mutator threads
    ptrs_per_thread,     \* g_forkgc_ptrs_per_thread: capacity of a batch
    pool,                \* the heap blocks the mutators come to retire
    words,               \* block -> the values its words may hold
    stacks,              \* the addresses the stacks and registers may hold
    budget,              \* retirements the mutators will still make
    mem,                 \* contents of the heap blocks, block -> words
    retired,             \* block -> number of times it has been retired
    freed,               \* block -> number of calls of free() on it
    g_gc_data,           \* incoming batches, head first
    g_gc_waiting,        \* 1 while the collector waits on g_gc_cond
    g_uncollected_data,  \* the carry-over pointer and the chain behind it
    gc_data,             \* garbage_collect's list of batches, head first
    working_data,        \* the aggregated dataset (shared with the child)
    gpc,                 \* where the collector thread is
    iters,               \* sweep passes of the cycle so far
    unref_config,        \* min_val and max_val of the running pass
    worker,              \* the sweep workers of the running pass
    g_received_signal,
    g_cleanup_counter,
    sig_count,
    mpc,                 \* where each mutator is
    old_counter,         \* each mutator's old_counter
    pending,             \* mutators with the signal pending
    child,               \* the forked child: "none", "scanning", "scanned",
                         \* "exited", "dead"
    pipe,                \* messages in the pipe from child to parent
    roots,               \* block addresses on the stacks at the snapshot
    hist                 \* history: what the claims speak about

vars == <<util, registry, stash, ndebug, fatal, threads, ptrs_per_thread, pool, words, stacks, budget, mem, retired, freed,
          g_gc_data, g_gc_waiting, g_uncollected_data, gc_data, working_data, gpc, iters,
          unref_config, worker, g_received_signal, g_cleanup_counter,
          sig_count, mpc, old_counter, pending, child, pipe, roots, hist>>

buildVars == <<util, registry, stash, ndebug, threads, ptrs_per_thread, pool, words, stacks>>
heapVars == <<mem, retired, freed>>
sweepVars == <<iters, unref_config, worker>>
barrierVars == <<g_received_signal, g_cleanup_counter, sig_count>>
mutatorVars == <<mpc, old_counter, pending>>
childVars == <<child, pipe, roots>>

MaxMutators == 2
Mutators == 1..MaxMutators

NoData == [n_addrs |-> 0, addrs |-> NoArray, refs |-> NoArray,
           alloc_sz |-> NoArray, minimap |-> NoArray, n_minimap |-> 0]
NullPtr == [ptr |-> "null", chain |-> <<>>]
\* util when no array is given to the functions of util.c.
NoCall == [pc |-> "none", a |-> NoArray, length |-> 0, before |-> NoArray,
           input |-> NoArray, savings |-> 0]
\* registry when no thread record is looked at.
NoRegistry == [tl |-> [head |-> <<>>, count |-> 0], td |-> << >>,
               g_td_staged_to_free |-> <<>>, owner |-> << >>,
               joiner |-> << >>, walker |-> << >>, staged |-> << >>]
\* stash when no free list is pushed or popped.
NoStash == [free_list_list |-> <<>>]

BlockZero == [k \in 0..(WordsPerBlock - 1) |-> 0]

\* malloc_usable_size: the bytes of an allocated block; of a block that was
\* freed the allocator may report anything (here: nothing, or its old size).
malloc_usable_size(a) ==
    IF a \in Pool /\ freed[a] = 0 THEN {WordsPerBlock * WORD_SIZE}
    ELSE {0, WordsPerBlock * WORD_SIZE}

(***************************************************************************)
(* aggregate_gc_data                                                       *)
(***************************************************************************)
\* The addresses of a list of batches, copied one batch after the other.
RECURSIVE copy_addrs(_)
copy_addrs(data_list) ==
    IF data_list = <<>> THEN <<>>
    ELSE LET tmp == Head(data_list)
         IN  [i \in 1..tmp.n_addrs |-> tmp.addrs[i - 1]] \o copy_addrs(Tail(data_list))

generate_minimap(addrs, n_addrs) ==
    LET n_minimap == (n_addrs + PTRS_PER_PAGE - 1) \div PTRS_PER_PAGE
    IN  [n_minimap |-> n_minimap,
         minimap |-> [k \in 0..(n_minimap - 1) |-> addrs[k * PTRS_PER_PAGE]]]

\* A variant: the arrays are taken from memory that was used before.
not_zeroed(n) == [i \in 0..(n - 1) |-> 1]

\* The pages of refs and alloc_sz come from a fresh shared mapping.
zero_filled(n) == [i \in 0..(n - 1) |-> 0]

\* The dataset aggregate_gc_data builds, before the block sizes are filled in.
aggregate_gc_data(data_list) ==
    LET copied == copy_addrs(data_list)
        n_addrs == Len(copied)
        addrs == forkgc_util_sort(ArrayOf(copied), n_addrs)
        mm == generate_minimap(addrs, n_addrs)
    IN  [n_addrs |-> n_addrs,
         addrs |-> addrs,
         refs |-> zero_filled(n_addrs),
         alloc_sz |-> zero_filled(n_addrs),
         minimap |-> mm.minimap,
         n_minimap |-> mm.n_minimap]

(***************************************************************************)
(* The mutators hand over batches; the collector thread takes them.        *)
(***************************************************************************)
Running == fatal = ""

Min(a, b) == IF a < b THEN a ELSE b

\* The collector is inside garbage_collect.
InCycle == gpc \notin {"idle", "cond_wait", "woken"}

\* A variant: the mutator never signals the condition.
NeverSignal(waiting) == FALSE

\* Line 432
NeedSignal(waiting) == waiting # 0

\* forkgc_initiate_collection(batch), by a mutator that retired the blocks of
\* the batch; lines 429-435 are one critical section of g_gc_mutex.  The
\* contents of a block are fixed when it is first retired.  The signal makes
\* the collector runnable when it is blocked in pthread_cond_wait.
forkgc_initiate_collection ==
    /\ Running /\ budget > 0
    /\ \E n \in 1..Min(ptrs_per_thread, budget) :
         \E addrs \in [0..(n - 1) -> {a \in pool : freed[a] = 0}] :
           LET times(a) == Cardinality({i \in 0..(n - 1) : addrs[i] = a})
               new == {a \in Pool : times(a) > 0 /\ retired[a] = 0}
               batch == [addrs |-> addrs, n_addrs |-> n,
                         capacity |-> ptrs_per_thread]
           IN  /\ \E contents \in [new -> [0..(WordsPerBlock - 1) -> Words]] :
                    /\ \A a \in new : \A k \in 0..(WordsPerBlock - 1) :
                         contents[a][k] \in words[a]
                    /\ mem' = [a \in Pool |-> IF a \in new THEN contents[a] ELSE mem[a]]
               /\ retired' = [a \in Pool |-> retired[a] + times(a)]
               /\ g_gc_data' = <<batch>> \o g_gc_data
               /\ budget' = budget - n
    /\ gpc' = IF NeedSignal(g_gc_waiting) /\ gpc = "cond_wait" THEN "woken" ELSE gpc
    /\ hist' = [hist EXCEPT !.passed = @ + 1]
    /\ UNCHANGED <<buildVars, fatal, freed, g_gc_waiting, g_uncollected_data,
                   gc_data, working_data, sweepVars, barrierVars, mutatorVars,
                   childVars>>

\* The same, by mutators that retire only while the collector is not in a
\* cycle: the cycle never reads g_gc_data, so the call commutes with the
\* steps of the cycle.
RetireBetweenCycles == ~InCycle /\ forkgc_initiate_collection

\* Lines 460-463 and 472: assert, detach the whole chain, garbage_collect.
Detach ==
    IF g_gc_data = <<>> /\ ~ndebug
    THEN /\ fatal' = "assert g_gc_data"
         /\ UNCHANGED <<g_gc_data, gc_data, gpc, hist>>
    ELSE /\ gc_data' = g_gc_data
         /\ g_gc_data' = <<>>
         /\ gpc' = "aggregate"
         /\ hist' = [hist EXCEPT !.handed = @ + Len(g_gc_data)]
         /\ UNCHANGED fatal

\* forkgc_thread, lines 451-463 and 472, one critical section: with nothing
\* in g_gc_data the collector sets g_gc_waiting and blocks in
\* pthread_cond_wait, which releases the mutex; else it detaches the chain.
forkgc_thread ==
    /\ Running /\ gpc = "idle"
    /\ IF g_gc_data = <<>>
       THEN /\ g_gc_waiting' = 1
            /\ gpc' = "cond_wait"
            /\ UNCHANGED <<fatal, g_gc_data, gc_data, hist>>
       ELSE /\ Detach
            /\ UNCHANGED g_gc_waiting
    /\ UNCHANGED <<buildVars, budget, heapVars, g_uncollected_data,
                   working_data, sweepVars, barrierVars, mutatorVars,
                   childVars>>

\* Lines 456-463 and 472: pthread_cond_wait returns with the mutex held.
forkgc_thread_woken ==
    /\ Running /\ gpc = "woken"
    /\ g_gc_waiting' = 0
    /\ Detach
    /\ UNCHANGED <<buildVars, budget, heapVars, g_uncollected_data,
                   working_data, sweepVars, barrierVars, mutatorVars,
                   childVars>>

(***************************************************************************)
(* garbage_collect, up to the fork.                                        *)
(***************************************************************************)
Stop(why) ==
    /\ fatal' = why
    /\ UNCHANGED <<buildVars, budget, heapVars, g_gc_data, g_gc_waiting, g_uncollected_data,
                   gc_data, working_data, gpc, sweepVars, barrierVars,
                   mutatorVars, childVars, hist>>

\* The list garbage_collect aggregates: the carry-over chain, then the new
\* batches.
with_uncollected(list) ==
    IF g_uncollected_data.ptr = "valid"
    THEN g_uncollected_data.chain \o list
    ELSE list

\* Lines 323-331: prepend the carry-over, aggregate.  A carry-over pointer
\* left dangling by an earlier cycle is followed into unmapped memory, or
\* into a mapping made since: the thread faults, or walks a list that never
\* ends.  With no batch at all, data_list is NULL and line 241 reads
\* through it.
Aggregate ==
    /\ Running /\ gpc = "aggregate"
    /\ IF g_uncollected_data.ptr = "dangling"
       THEN \E why \in {"segv", "hang"} : Stop(why)
       ELSE IF with_uncollected(gc_data) = <<>>
       THEN Stop("segv")
       ELSE LET list == with_uncollected(gc_data)
                wd == aggregate_gc_data(list)
            IN  IF ~ndebug /\ ~assert_monotonicity(wd.addrs, wd.n_addrs)
                THEN Stop("assert_monotonicity")
                ELSE \E sz \in [0..(wd.n_addrs - 1) -> {0, WordsPerBlock * WORD_SIZE}] :
                       /\ \A i \in 0..(wd.n_addrs - 1) :
                            sz[i] \in malloc_usable_size(wd.addrs[i])
                       /\ IF ~ndebug /\ \E i \in 0..(wd.n_addrs - 1) : ~(sz[i] > 0)
                          THEN Stop("assert alloc_sz")
                          ELSE /\ working_data' = [wd EXCEPT !.alloc_sz = sz]
                               /\ gc_data' = list
                               /\ g_uncollected_data' =
                                    IF g_uncollected_data.ptr = "valid"
                                    THEN [ptr |-> "valid", chain |-> list]
                                    ELSE g_uncollected_data
                               /\ pipe' = <<>>
                               /\ gpc' = "reset"
                               /\ hist' = [hist EXCEPT !.claims = 0, !.frees = 0,
                                                       !.claimRefs = {},
                                                       !.dataset = wd.addrs]
                               /\ UNCHANGED <<buildVars, fatal, budget, heapVars,
                                              g_gc_data, g_gc_waiting, sweepVars, barrierVars,
                                              mutatorVars, child, roots>>

\* Line 340
ResetSignal ==
    /\ Running /\ gpc = "reset"
    /\ g_received_signal' = 0
    /\ gpc' = "signal"
    /\ hist' = [hist EXCEPT !.barrier = @ + 1]
    /\ UNCHANGED <<buildVars, fatal, budget, heapVars, g_gc_data, g_gc_waiting,
                   g_uncollected_data, gc_data, working_data, sweepVars,
                   g_cleanup_counter, sig_count, mutatorVars, childVars>>

\* threadscan_proc_signal: the signal is sent to every registered mutator;
\* the number sent is returned.
threadscan_proc_signal ==
    [pending |-> [m \in Mutators |-> pending[m] \/ m \in threads],
     count |-> Cardinality(threads)]

\* Line 341
SignalAll ==
    /\ Running /\ gpc = "signal"
    /\ pending' = threadscan_proc_signal.pending
    /\ sig_count' = threadscan_proc_signal.count
    /\ gpc' = "wait"
    /\ UNCHANGED <<buildVars, fatal, budget, heapVars, g_gc_data, g_gc_waiting,
                   g_uncollected_data, gc_data, working_data, sweepVars,
                   g_received_signal, g_cleanup_counter, mpc, old_counter,
                   childVars, hist>>

\* A variant: the collector stops waiting one acknowledgement early.
AllButOneAcknowledged == ~(g_received_signal < sig_count - 1)

\* Line 342: the collector leaves the loop when the test fails.
AllAcknowledged == ~(g_received_signal < sig_count)

WaitAcks ==
    /\ Running /\ gpc = "wait"
    /\ AllAcknowledged
    /\ gpc' = "fork"
    /\ UNCHANGED <<buildVars, fatal, budget, heapVars, g_gc_data, g_gc_waiting,
                   g_uncollected_data, gc_data, working_data, sweepVars,
                   barrierVars, mutatorVars, childVars, hist>>

\* The block addresses of the dataset.
Candidates(wd) == {PTR_MASK(wd.addrs[i]) : i \in 0..(wd.n_addrs - 1)}

\* Lines 343-354: fork.  The child holds the snapshot: the heap and the
\* stacks as they are now; the stacks hold any of the candidates that are
\* among the addresses of stacks.
Fork ==
    /\ Running /\ gpc = "fork"
    /\ \/ Stop("fork")
       \/ /\ \E r \in SUBSET (Candidates(working_data) \cap stacks) : roots' = r
          /\ child' = "scanning"
          /\ gpc' = "cleanup"
          /\ hist' = [hist EXCEPT !.forks = @ + 1, !.heap = mem, !.freed = freed]
          /\ UNCHANGED <<buildVars, fatal, budget, heapVars, g_gc_data, g_gc_waiting,
                         g_uncollected_data, gc_data, working_data, sweepVars,
                         barrierVars, mutatorVars, pipe>>

\* A variant: the collector goes on without advancing g_cleanup_counter.
CleanupWithoutIncrement ==
    /\ Running /\ gpc = "cleanup"
    /\ gpc' = "read"
    /\ UNCHANGED <<buildVars, fatal, budget, heapVars, g_gc_data, g_gc_waiting,
                   g_uncollected_data, gc_data, working_data, sweepVars,
                   barrierVars, mutatorVars, childVars, hist>>

\* Lines 356-357
Cleanup ==
    /\ Running /\ gpc = "cleanup"
    /\ g_cleanup_counter' = g_cleanup_counter + 1
    /\ gpc' = "read"
    /\ UNCHANGED <<buildVars, fatal, budget, heapVars, g_gc_data, g_gc_waiting,
                   g_uncollected_data, gc_data, working_data, sweepVars,
                   g_received_signal, sig_count, mutatorVars, childVars, hist>>

(***************************************************************************)
(* forkgc_wait_for_snapshot, run by a mutator's signal handler.            *)
(***************************************************************************)
\* The signal is delivered (it stays blocked while the handler runs);
\* line 418.
HandlerEnter(m) ==
    /\ Running /\ mpc[m] = "run" /\ pending[m]
    /\ pending' = [pending EXCEPT ![m] = FALSE]
    /\ old_counter' = [old_counter EXCEPT ![m] = g_cleanup_counter]
    /\ mpc' = [mpc EXCEPT ![m] = "setjmp"]
    /\ hist' = [hist EXCEPT !.entered[m] = hist.barrier]
    /\ UNCHANGED <<buildVars, fatal, budget, heapVars, g_gc_data, g_gc_waiting,
                   g_uncollected_data, gc_data, working_data, gpc, sweepVars,
                   barrierVars, childVars>>

\* Line 419: the registers are spilled to the stack.
HandlerSetjmp(m) ==
    /\ Running /\ mpc[m] = "setjmp"
    /\ mpc' = [mpc EXCEPT ![m] = "ack"]
    /\ hist' = [hist EXCEPT !.spill[m] = hist.barrier]
    /\ UNCHANGED <<buildVars, fatal, budget, heapVars, g_gc_data, g_gc_waiting,
                   g_uncollected_data, gc_data, working_data, gpc, sweepVars,
                   barrierVars, old_counter, pending, childVars>>

\* Line 420
HandlerAck(m) ==
    /\ Running /\ mpc[m] = "ack"
    /\ g_received_signal' = g_received_signal + 1
    /\ mpc' = [mpc EXCEPT ![m] = "park"]
    /\ hist' = [hist EXCEPT !.ack[m] = hist.barrier]
    /\ UNCHANGED <<buildVars, fatal, budget, heapVars, g_gc_data, g_gc_waiting,
                   g_uncollected_data, gc_data, working_data, gpc, sweepVars,
                   g_cleanup_counter, sig_count, old_counter, pending,
                   childVars>>

\* A variant: the mutator leaves the loop while the counter is unchanged.
ReleasedAtOnce(m) == old_counter[m] <= g_cleanup_counter

\* Line 421: the mutator leaves the loop when the test fails.
Released(m) == ~(old_counter[m] = g_cleanup_counter)

HandlerReturn(m) ==
    /\ Running /\ mpc[m] = "park"
    /\ Released(m)
    /\ mpc' = [mpc EXCEPT ![m] = "run"]
    /\ hist' = [hist EXCEPT !.left[m] = g_cleanup_counter]
    /\ UNCHANGED <<buildVars, fatal, budget, heapVars, g_gc_data, g_gc_waiting,
                   g_uncollected_data, gc_data, working_data, gpc, sweepVars,
                   barrierVars, old_counter, pending, childVars>>

(***************************************************************************)
(* The child: threadscan_child scans the snapshot and reports.             *)
(***************************************************************************)
\* What a read of block a may return: its contents, or anything at all once
\* the block has been freed.
BlockViews(a) ==
    IF freed[a] = 0 THEN {mem[a]}
    ELSE [0..(WordsPerBlock - 1) -> Words]

\* The scanner's search (minimap, then binary search) gives one slot for a
\* value; with equal slots it is one of them.
ScanHits(wd) ==
    {hit \in [Candidates(wd) -> 0..(wd.n_addrs - 1)] :
        \A v \in Candidates(wd) : wd.addrs[hit[v]] = v}

\* refs after the scan: one increment for every word of a stack and of a
\* candidate block that holds, masked, an address of the dataset.
ScannedRefs(wd, view, hit) ==
    LET min_val == wd.addrs[0]
        max_val == wd.addrs[wd.n_addrs - 1]
        Found(v, j) == /\ min_val <= v /\ v <= max_val
                       /\ v \in Candidates(wd)
                       /\ hit[v] = j
        FromStacks(j) == {r \in roots : Found(PTR_MASK(r), j)}
        FromBlocks(j) ==
            {ik \in (0..(wd.n_addrs - 1)) \X (0..(WordsPerBlock - 1)) :
                /\ ik[2] < wd.alloc_sz[ik[1]] \div WORD_SIZE
                /\ Found(PTR_MASK(view[ik[1]][ik[2]]), j)}
    IN  [j \in 0..(wd.n_addrs - 1) |->
            wd.refs[j] + Cardinality(FromStacks(j)) + Cardinality(FromBlocks(j))]

threadscan_child ==
    /\ Running /\ child = "scanning"
    /\ \E view \in [0..(working_data.n_addrs - 1) -> [0..(WordsPerBlock - 1) -> Words]] :
         /\ \A i \in 0..(working_data.n_addrs - 1) :
              view[i] \in BlockViews(working_data.addrs[i])
         /\ \E hit \in ScanHits(working_data) :
              working_data' =
                [working_data EXCEPT !.refs = ScannedRefs(working_data, view, hit)]
    /\ child' = "scanned"
    /\ UNCHANGED <<buildVars, fatal, budget, heapVars, g_gc_data, g_gc_waiting,
                   g_uncollected_data, gc_data, gpc, sweepVars, barrierVars,
                   mutatorVars, pipe, roots, hist>>

\* The child reports: its one message, the number of bytes scanned, is
\* written to the pipe when the scan is done; the child exits.
ChildReport ==
    /\ Running /\ child = "scanned"
    /\ pipe' = Append(pipe, "bytes_scanned")
    /\ child' = "exited"
    /\ UNCHANGED <<buildVars, fatal, budget, heapVars, g_gc_data, g_gc_waiting,
                   g_uncollected_data, gc_data, working_data, gpc, sweepVars,
                   barrierVars, mutatorVars, roots, hist>>

\* The child is killed, or faults on what it reads, before it has reported:
\* its end of the pipe is closed with nothing written.
ChildDies ==
    /\ Running /\ child \in {"scanning", "scanned"}
    /\ child' = "dead"
    /\ UNCHANGED <<buildVars, fatal, budget, heapVars, g_gc_data, g_gc_waiting,
                   g_uncollected_data, gc_data, working_data, gpc, sweepVars,
                   barrierVars, mutatorVars, pipe, roots, hist>>

\* A variant: the parent does not wait for the child's message.
MessageAssumed == TRUE

\* Lines 361-362: read() returns sizeof(size_t) once the message is there.
MessageArrived == pipe # <<>>

\* Lines 359-369: the parent blocks in read() until the message is there, or
\* until the pipe is at end of file (the child is gone and the parent has
\* closed its own write end): then read() returns 0 and the process stops.
ReadPipe ==
    /\ Running /\ gpc = "read"
    /\ IF MessageArrived
       THEN /\ pipe' = IF pipe # <<>> THEN Tail(pipe) ELSE pipe
            /\ gpc' = "sweep"
            /\ iters' = 0
            /\ hist' = [hist EXCEPT !.reads = @ + 1,
                                    !.scan = working_data.refs]
            /\ UNCHANGED fatal
       ELSE /\ child = "dead"
            /\ fatal' = "read"
            /\ UNCHANGED <<pipe, gpc, iters, hist>>
    /\ UNCHANGED <<buildVars, budget, heapVars, g_gc_data, g_gc_waiting,
                   g_uncollected_data, gc_data, working_data, unref_config,
                   worker, barrierVars, mutatorVars, child, roots>>

(***************************************************************************)
(* find_unreferenced_nodes: the parallel sweep.                            *)
(***************************************************************************)
\* Lines 164-190: the pass's configuration and its workers.
SweepStart ==
    /\ Running /\ gpc = "sweep"
    /\ LET n == working_data.n_addrs
           thread_count == Min((n \div ADDRS_PER_THREAD) + 1, MAX_THREADS)
           addrs_per_thread == n \div thread_count
       IN  /\ unref_config' = [min_val |-> working_data.addrs[0],
                               max_val |-> working_data.addrs[n - 1]]
           /\ worker' = [t \in 0..(thread_count - 1) |->
                           [pc |-> "range",
                            i |-> t * addrs_per_thread,
                            range_end |-> IF t = thread_count - 1 THEN n
                                          ELSE (t + 1) * addrs_per_thread,
                            addr |-> 0,
                            stack |-> <<>>]]
    /\ iters' = iters + 1
    /\ gpc' = "join"
    /\ UNCHANGED <<buildVars, fatal, budget, heapVars, g_gc_data, g_gc_waiting,
                   g_uncollected_data, gc_data, working_data, barrierVars,
                   mutatorVars, childVars, hist>>

\* BCAS(&addrs[loc], old, new)
BCAS(addrs, loc, old) == addrs[loc] = old

\* binary_search(val, addrs, min, max): the slots of [min, max) that hold val;
\* -1 stands for the slot returned when there is none, which is_ref rejects.
binary_search(val, addrs, min, max) ==
    LET found == {j \in min..(max - 1) : PTR_MASK(addrs[j]) = val}
    IN  IF found = {} THEN {-1} ELSE found

is_ref(wd, loc, cmp) == loc >= 0 /\ PTR_MASK(wd.addrs[loc]) = cmp

Top(w) == w.stack[Len(w.stack)]
SetTop(w, f) == [w EXCEPT !.stack[Len(w.stack)] = f]
\* ++i of unref_addr's loop
NextWord(w) ==
    [SetTop(w, [Top(w) EXCEPT !.i = @ + 1, !.deep_addr = 0, !.loc = 0])
        EXCEPT !.pc = "unref"]
\* unref_addr(unref_config, n, max_depth) is entered
Call(w, n, max_depth) ==
    [w EXCEPT !.pc = "unref",
              !.stack = Append(@, [n |-> n, i |-> 0, max_depth |-> max_depth,
                                   deep_addr |-> 0, loc |-> 0])]

WorkerUnchanged ==
    UNCHANGED <<buildVars, budget, retired, g_gc_data, g_gc_waiting, g_uncollected_data,
                gc_data, gpc, iters, unref_config, barrierVars, mutatorVars,
                childVars>>

\* A variant: address_range claims every slot not yet collected.
ClaimableWhateverRefs(addr, refs_i) == LowBit(addr) = 0

\* The test of line 143, which address_range makes before it claims slot i.
Claimable(addr, refs_i) == LowBit(addr) = 0 /\ refs_i = 0

\* Lines 139-143: the loop head of address_range and its tests.
AddressRange(t) ==
    /\ Running /\ gpc = "join" /\ t \in DOMAIN worker
    /\ worker[t].pc = "range"
    /\ LET w == worker[t]
       IN  IF ~(w.i < w.range_end)
           THEN /\ worker' = [worker EXCEPT ![t] = [w EXCEPT !.pc = "done"]]
                /\ UNCHANGED <<fatal, mem, freed, working_data, hist>>
           ELSE IF ~ndebug /\ ~(working_data.refs[w.i] >= 0)
           THEN /\ fatal' = "assert refs"
                /\ UNCHANGED <<worker, mem, freed, working_data, hist>>
           ELSE /\ worker' = [worker EXCEPT ![t] =
                     IF Claimable(working_data.addrs[w.i], working_data.refs[w.i])
                     THEN [w EXCEPT !.pc = "claim", !.addr = working_data.addrs[w.i]]
                     ELSE [w EXCEPT !.i = @ + 1]]
                /\ UNCHANGED <<fatal, mem, freed, working_data, hist>>
    /\ WorkerUnchanged

\* The history of a successful claim of slot loc.
Claimed(loc) ==
    [hist EXCEPT !.claims = @ + 1,
                 !.claimRefs = @ \cup {working_data.refs[loc]}]

\* Lines 144-145
AddressRangeClaim(t) ==
    /\ Running /\ gpc = "join" /\ t \in DOMAIN worker
    /\ worker[t].pc = "claim"
    /\ LET w == worker[t]
       IN  IF BCAS(working_data.addrs, w.i, w.addr)
           THEN /\ working_data' = [working_data EXCEPT !.addrs[w.i] = SetLowBit(w.addr)]
                /\ worker' = [worker EXCEPT ![t] =
                                Call([w EXCEPT !.addr = 0], w.i, UNREF_DEPTH)]
                /\ hist' = Claimed(w.i)
           ELSE /\ worker' = [worker EXCEPT ![t] =
                                [w EXCEPT !.pc = "range", !.i = @ + 1, !.addr = 0]]
                /\ UNCHANGED <<working_data, hist>>
    /\ UNCHANGED <<fatal, mem, freed>>
    /\ WorkerUnchanged

\* Lines 91-104: one word of the block of slot n is looked at.
UnrefWord(t) ==
    /\ Running /\ gpc = "join" /\ t \in DOMAIN worker
    /\ worker[t].pc = "unref"
    /\ LET w == worker[t]
           f == Top(w)
           addr == working_data.addrs[f.n]
           p == PTR_MASK(addr)
           elements == working_data.alloc_sz[f.n] \div WORD_SIZE
       IN  IF ~(f.i < elements)
           THEN /\ worker' = [worker EXCEPT ![t] = [w EXCEPT !.pc = "free"]]
                /\ UNCHANGED mem
           ELSE \E view \in BlockViews(p) :
                  LET deep_addr == PTR_MASK(view[f.i])
                  IN  IF deep_addr >= unref_config.min_val
                         /\ deep_addr <= unref_config.max_val
                      THEN /\ mem' = IF freed[p] = 0
                                     THEN [mem EXCEPT ![p][f.i] = 0] ELSE mem
                           /\ \E loc \in IF deep_addr < addr
                                         THEN binary_search(deep_addr, working_data.addrs,
                                                            0, f.n)
                                         ELSE binary_search(deep_addr, working_data.addrs,
                                                            f.n, working_data.n_addrs) :
                                worker' = [worker EXCEPT ![t] =
                                    IF is_ref(working_data, loc, deep_addr)
                                    THEN [SetTop(w, [f EXCEPT !.deep_addr = deep_addr,
                                                              !.loc = loc])
                                             EXCEPT !.pc = "dec"]
                                    ELSE NextWord(w)]
                      ELSE /\ worker' = [worker EXCEPT ![t] = NextWord(w)]
                           /\ UNCHANGED mem
    /\ UNCHANGED <<fatal, freed, working_data, hist>>
    /\ WorkerUnchanged

\* Line 107: __sync_fetch_and_sub(&refs[loc], 1)
UnrefDecrement(t) ==
    /\ Running /\ gpc = "join" /\ t \in DOMAIN worker
    /\ worker[t].pc = "dec"
    /\ working_data' = [working_data EXCEPT !.refs[Top(worker[t]).loc] = @ - 1]
    /\ worker' = [worker EXCEPT ![t].pc = "remaining"]
    /\ UNCHANGED <<fatal, mem, freed, hist>>
    /\ WorkerUnchanged

\* A variant: the recursion goes on whatever the depth.
RecurseAnyDepth(max_depth, remaining_refs) == remaining_refs = 0

\* A variant: the recursion stops one level earlier.
RecurseShallow(max_depth, remaining_refs) == max_depth > 1 /\ remaining_refs = 0

\* The tests of lines 110-111, on the value of refs[loc] read at line 108.
Recurse(max_depth, remaining_refs) == max_depth > 0 /\ remaining_refs = 0

\* Lines 108-111
UnrefRemaining(t) ==
    /\ Running /\ gpc = "join" /\ t \in DOMAIN worker
    /\ worker[t].pc = "remaining"
    /\ LET w == worker[t]
           f == Top(w)
           remaining_refs == working_data.refs[f.loc]
       IN  IF ~ndebug /\ ~(remaining_refs >= 0)
           THEN /\ fatal' = "assert remaining_refs"
                /\ UNCHANGED worker
           ELSE /\ worker' = [worker EXCEPT ![t] =
                                IF Recurse(f.max_depth, remaining_refs)
                                THEN [w EXCEPT !.pc = "cas"]
                                ELSE NextWord(w)]
                /\ UNCHANGED fatal
    /\ UNCHANGED <<mem, freed, working_data, hist>>
    /\ WorkerUnchanged

\* Lines 112-118
UnrefClaim(t) ==
    /\ Running /\ gpc = "join" /\ t \in DOMAIN worker
    /\ worker[t].pc = "cas"
    /\ LET w == worker[t]
           f == Top(w)
       IN  IF BCAS(working_data.addrs, f.loc, f.deep_addr)
           THEN /\ working_data' = [working_data EXCEPT
                                      !.addrs[f.loc] = SetLowBit(f.deep_addr)]
                /\ worker' = [worker EXCEPT ![t] = Call(w, f.loc, f.max_depth - 1)]
                /\ hist' = Claimed(f.loc)
           ELSE /\ worker' = [worker EXCEPT ![t] = NextWord(w)]
                /\ UNCHANGED <<working_data, hist>>
    /\ UNCHANGED <<fatal, mem, freed>>
    /\ WorkerUnchanged

\* A slot that holds block p while its counter is positive.
ReferencedSlot(wd, p) ==
    \E j \in 0..(wd.n_addrs - 1) : PTR_MASK(wd.addrs[j]) = p /\ wd.refs[j] > 0

\* Line 123: free(p), and the return to the caller.
UnrefFree(t) ==
    /\ Running /\ gpc = "join" /\ t \in DOMAIN worker
    /\ worker[t].pc = "free"
    /\ LET w == worker[t]
           p == PTR_MASK(working_data.addrs[Top(w).n])
           popped == [w EXCEPT !.stack = SubSeq(@, 1, Len(@) - 1)]
       IN  /\ freed' = [freed EXCEPT ![p] = @ + 1]
           /\ mem' = [mem EXCEPT ![p] = BlockZero]
           /\ hist' = [hist EXCEPT !.frees = @ + 1,
                                   !.freedReferenced = @ \/ ReferencedSlot(working_data, p)]
           /\ worker' = [worker EXCEPT ![t] =
                           IF popped.stack = <<>>
                           THEN [popped EXCEPT !.pc = "range", !.i = @ + 1]
                           ELSE NextWord(popped)]
    /\ UNCHANGED <<fatal, working_data>>
    /\ WorkerUnchanged

\* A variant: the compaction keeps every entry.
CollectedNever(addr) == FALSE

\* Line 204: the entry of slot i is dropped by the compaction.
Collected(addr) == LowBit(addr) = 1

\* Lines 200-217: the compaction loop, from slot i on.
RECURSIVE compact_from(_, _, _, _)
compact_from(wd, i, write_position, savings) ==
    IF ~(i < wd.n_addrs)
    THEN [wd |-> [wd EXCEPT !.n_addrs = write_position,
                            !.addrs = Prefix(wd.addrs, write_position),
                            !.refs = Prefix(wd.refs, write_position),
                            !.alloc_sz = Prefix(wd.alloc_sz, write_position)],
          savings |-> savings]
    ELSE IF Collected(wd.addrs[i])
    THEN compact_from(wd, i + 1, write_position, savings + 1)
    ELSE compact_from([wd EXCEPT !.addrs[write_position] = wd.addrs[i],
                                 !.refs[write_position] = wd.refs[i],
                                 !.alloc_sz[write_position] = wd.alloc_sz[i]],
                      i + 1, write_position + 1, savings)

\* Lines 192-217 and the loop test of line 373: the workers are joined, the
\* list is compacted (the slots behind n_addrs are not read again and are
\* left out), and the pass is repeated while it saved something.
SweepJoin ==
    /\ Running /\ gpc = "join"
    /\ \A t \in DOMAIN worker : worker[t].pc = "done"
    /\ LET r == compact_from(working_data, 0, 0, 0)
       IN  /\ working_data' = r.wd
           /\ gpc' = IF r.savings > 0 /\ r.wd.n_addrs > 0 THEN "sweep"
                     ELSE "redistribute"
    /\ worker' = << >>
    /\ unref_config' = [min_val |-> 0, max_val |-> 0]
    /\ UNCHANGED <<buildVars, fatal, budget, heapVars, g_gc_data, g_gc_waiting,
                   g_uncollected_data, gc_data, iters, barrierVars,
                   mutatorVars, childVars, hist>>

(***************************************************************************)
(* garbage_collect, lines 375-402: the survivors go back into the batches. *)
(***************************************************************************)
\* Lines 377-385, from survivor i on; cur is the batch gc_data points to, a
\* position in list, or beyond it when gc_data->next was NULL.
RECURSIVE redistribute_from(_, _, _, _)
redistribute_from(list, cur, i, wd) ==
    IF ~(i < wd.n_addrs) \/ cur > Len(list) THEN [list |-> list, cur |-> cur]
    ELSE IF list[cur].n_addrs >= list[cur].capacity
    THEN IF cur + 1 > Len(list) THEN [list |-> list, cur |-> cur + 1]
         ELSE redistribute_from(
                [list EXCEPT ![cur + 1].n_addrs = 1,
                             ![cur + 1].addrs = [k \in {0} |-> wd.addrs[i]]],
                cur + 1, i + 1, wd)
    ELSE redistribute_from(
           [list EXCEPT ![cur].n_addrs = @ + 1,
                        ![cur].addrs = [k \in 0..list[cur].n_addrs |->
                                          IF k < list[cur].n_addrs
                                          THEN list[cur].addrs[k]
                                          ELSE wd.addrs[i]]],
           cur, i + 1, wd)

\* Line 375, then the loop.
redistribute(list, wd) ==
    redistribute_from([list EXCEPT ![1].n_addrs = 0, ![1].addrs = NoArray],
                      1, 0, wd)

\* Lines 375-402.  The batches up to the last one holding survivors stay
\* mapped; the others are unmapped.  g_uncollected_data is assigned only in
\* the loop, and only when it was NULL.
Redistribute ==
    /\ Running /\ gpc = "redistribute"
    /\ LET r == redistribute(gc_data, working_data)
           had == g_uncollected_data.ptr = "valid"
       IN  IF r.cur > Len(gc_data)
           THEN Stop(IF ndebug THEN "segv" ELSE "assert gc_data")
           ELSE IF r.list[r.cur].n_addrs > 0
           THEN /\ g_uncollected_data' =
                      [ptr |-> "valid", chain |-> SubSeq(r.list, 1, r.cur)]
                /\ fatal' = fatal
           ELSE IF had /\ ~ndebug
           THEN /\ fatal' = "assert g_uncollected_data"
                /\ UNCHANGED g_uncollected_data
           ELSE /\ g_uncollected_data' =
                      IF had THEN [ptr |-> "dangling", chain |-> <<>>]
                      ELSE NullPtr
                /\ fatal' = fatal
    /\ IF fatal' = ""
       THEN /\ gc_data' = <<>>
            /\ working_data' = NoData
            /\ iters' = 0
            /\ child' = "none"
            /\ roots' = {}
            /\ gpc' = "idle"
       ELSE UNCHANGED <<gc_data, working_data, iters, child, roots, gpc>>
    /\ UNCHANGED <<buildVars, budget, heapVars, g_gc_data, g_gc_waiting, unref_config,
                   worker, barrierVars, mutatorVars, pipe, hist>>

(***************************************************************************)
(* The specifications.                                                     *)
(***************************************************************************)
\* Retirements (calls that put a block into a batch) in the run of Spec.
MaxRetired == 3

\* The history, hist, records what the program itself does not keep:
\*   barrier          resets of g_received_signal so far (the cycle's number)
\*   forks            successful forks so far
\*   reads            messages of the child read from the pipe so far
\*   entered[m]       barrier at which m last entered the handler
\*   spill[m], ack[m] barrier at which m last spilled, last acknowledged
\*   left[m]          g_cleanup_counter when m last left the handler
\*   claims, frees    successful claims and calls of free in the cycle
\*   claimRefs        the values of refs[i] at the claims of the cycle
\*   freedReferenced  a block was freed while a slot holding it had refs > 0
\*   dataset          addrs as aggregate_gc_data returned it
\*   heap             the contents of the blocks at the last fork (the snapshot)
\*   freed            the calls of free on each block before the last fork
\*   scan             refs as the scan of the child left it
\*   passed, handed   batches passed to forkgc_initiate_collection, batches
\*                    handed to garbage_collect
\*   wakeups          returns of pthread_cond_wait that no signal caused
InitProcess ==
    /\ ndebug \in BOOLEAN
    /\ fatal = ""
    /\ mem = [a \in Pool |-> BlockZero]
    /\ retired = [a \in Pool |-> 0]
    /\ freed = [a \in Pool |-> 0]
    /\ g_gc_data = <<>>
    /\ g_gc_waiting = 0
    /\ g_uncollected_data = NullPtr
    /\ gc_data = <<>>
    /\ working_data = NoData
    /\ gpc = "idle"
    /\ iters = 0
    /\ unref_config = [min_val |-> 0, max_val |-> 0]
    /\ worker = << >>
    /\ g_received_signal = 0
    /\ g_cleanup_counter = 0
    /\ sig_count = 0
    /\ mpc = [m \in Mutators |-> "run"]
    /\ old_counter = [m \in Mutators |-> 0]
    /\ pending = [m \in Mutators |-> FALSE]
    /\ child = "none"
    /\ pipe = <<>>
    /\ roots = {}
    /\ hist = [barrier |-> 0, forks |-> 0,
               entered |-> [m \in Mutators |-> 0],
               spill |-> [m \in Mutators |-> 0],
               ack |-> [m \in Mutators |-> 0],
               left |-> [m \in Mutators |-> 0],
               reads |-> 0, claims |-> 0, frees |-> 0, claimRefs |-> {},
               freedReferenced |-> FALSE, dataset |-> NoArray,
               heap |-> [a \in Pool |-> BlockZero],
               freed |-> [a \in Pool |-> 0],
               passed |-> 0, handed |-> 0, scan |-> NoArray,
               wakeups |-> 0]

\* The process before the first batch is handed over; no call of util.c is
\* looked at.
InitCommon ==
    /\ util = NoCall
    /\ registry = NoRegistry
    /\ stash = NoStash
    /\ InitProcess

\* The mutators retire MaxRetired times, in batches of up to MaxCapacity; no
\* mutator is registered when the collector signals.
InitCycle ==
    /\ InitCommon
    /\ threads = {}
    /\ ptrs_per_thread = MaxCapacity
    /\ pool = Blocks(MaxBlocks)
    /\ words = [a \in Pool |-> {0, 3} \cup Blocks(MaxBlocks)]
    /\ stacks = Pool
    /\ budget = MaxRetired

\* Retirements in the runs of SpecBarrier and FairBarrier.
BarrierRetired == 2

\* Every mutator is registered and is signalled in every cycle; the batches
\* hold one block each.
InitBarrier ==
    /\ InitCommon
    /\ threads = Mutators
    /\ ptrs_per_thread = 1
    /\ pool = Blocks(MaxBlocks)
    /\ words = [a \in Pool |-> {0, 2 * MaxBlocks}]
    /\ stacks = Pool
    /\ budget = BarrierRetired

Collector ==
    \/ forkgc_thread \/ forkgc_thread_woken \/ Aggregate \/ ResetSignal \/ SignalAll \/ WaitAcks
    \/ Fork \/ Cleanup \/ ReadPipe \/ SweepStart \/ SweepJoin \/ Redistribute

Sweeper(t) ==
    \/ AddressRange(t) \/ AddressRangeClaim(t) \/ UnrefWord(t)
    \/ UnrefDecrement(t) \/ UnrefRemaining(t) \/ UnrefClaim(t) \/ UnrefFree(t)

Handler(m) ==
    \/ HandlerEnter(m) \/ HandlerSetjmp(m) \/ HandlerAck(m) \/ HandlerReturn(m)

NextCycle ==
    \/ RetireBetweenCycles
    \/ Collector
    \/ threadscan_child \/ ChildReport \/ ChildDies
    \/ \E t \in 0..(MAX_THREADS - 1) : Sweeper(t)

Next ==
    \/ NextCycle
    \/ \E m \in Mutators : Handler(m)

Spec == InitCycle /\ [][NextCycle]_vars

SpecBarrier == InitBarrier /\ [][Next]_vars

\* The scheduler lets every thread that can take a step take one: the
\* collector, the child, the sweep workers and the handlers all run.
Fairness ==
    /\ WF_vars(Collector)
    /\ WF_vars(threadscan_child) /\ WF_vars(ChildReport)
    /\ \A t \in 0..(MAX_THREADS - 1) : WF_vars(Sweeper(t))
    /\ \A m \in Mutators : WF_vars(Handler(m))

FairBarrier == SpecBarrier /\ Fairness

(***************************************************************************)
(* The claims.                                                             *)
(***************************************************************************)
\* Some block is in the batches more than once: it was retired twice.
RetiredTwice == \E a \in Pool : retired[a] > 1

\* C1: across the sweep passes of a cycle, whatever the workers and their
\* interleaving, no block address is passed to free more than once.
C1_FreedAtMostOnce == \A a \in Pool : freed[a] <= 1

\* C2: a block is passed to free only if its counter was 0 when its slot
\* was claimed, and no block is freed while a slot that holds it has a
\* positive counter.
C2_FreedOnlyUnreferenced ==
    /\ hist.claimRefs \subseteq {0}
    /\ ~hist.freedReferenced

\* C6: at any time during scan and sweep every counter refs[i] is at least 0.
C6_RefsNonNegative ==
    \A i \in 0..(working_data.n_addrs - 1) : working_data.refs[i] >= 0

\* C7: after aggregate_gc_data the aggregated array is strictly ascending,
\* addrs[i] < addrs[j] for all i < j.
C7_StrictlyAscending ==
    \A i, j \in DOMAIN hist.dataset :
        i < j => hist.dataset[i] < hist.dataset[j]

\* C8: when an address is more than once among the batches of a cycle, the
\* cycle still completes (the process is not stopped by the collector), the
\* block is freed at most once, and not while a counted reference remains.
C8_DuplicatesTolerated ==
    RetiredTwice =>
        /\ fatal \in {"", "fork"}
        /\ \A a \in Pool : retired[a] > 1 => freed[a] <= 1
        /\ \A a \in Pool :
             retired[a] > 1 /\ freed[a] > 0 => ~ReferencedSlot(working_data, a)

\* The dataset of the running cycle holds batches carried over from an
\* earlier cycle.
WithCarryOver == g_uncollected_data.ptr = "valid" /\ hist.forks >= 2

\* C9: at the start of every cycle's scan (the dataset as it is at the
\* fork), also when it holds survivors carried over, every refs[i] is 0 and
\* no addrs[i] has its low bit set.
C9_ScanStartClean ==
    (gpc = "fork" \/ child = "scanning") =>
        \A i \in 0..(working_data.n_addrs - 1) :
            /\ working_data.refs[i] = 0
            /\ LowBit(working_data.addrs[i]) = 0

\* The child scans a dataset that holds carried-over survivors.
C9_Witness ==
    /\ child = "scanning"
    /\ WithCarryOver
    /\ working_data.n_addrs > 1

\* C10: at the end of every cycle every address of the survivors array, and
\* so every address written back into the carry-over batches, has its low
\* bit clear: the entries whose collected bit was set were dropped.
C10_SurvivorsUnmarked ==
    /\ gpc = "redistribute" =>
         \A i \in 0..(working_data.n_addrs - 1) :
             LowBit(working_data.addrs[i]) = 0
    /\ gpc = "idle" =>
         \A k \in 1..Len(g_uncollected_data.chain) :
             \A i \in 0..(g_uncollected_data.chain[k].n_addrs - 1) :
                 LowBit(g_uncollected_data.chain[k].addrs[i]) = 0

\* A cycle has ended in which blocks were freed and others were carried over.
C10_Witness ==
    /\ gpc = "idle"
    /\ g_uncollected_data.ptr = "valid"
    /\ g_uncollected_data.chain[1].n_addrs > 0
    /\ hist.frees > 0

\* The mutators whose acknowledgement was counted since the last reset of
\* g_received_signal.
Acknowledged == {m \in Mutators : hist.ack[m] = hist.barrier}

\* C3: in every cycle fork() is called only after each of the sig_count
\* mutators signalled in the cycle has spilled its registers and then
\* incremented g_received_signal: at the fork g_received_signal >= sig_count,
\* every increment counted is one of this cycle, and a mutator's spill comes
\* before its increment.
C3_ForkAfterSpills ==
    /\ gpc = "fork" =>
         /\ g_received_signal >= sig_count
         /\ sig_count = Cardinality(threads)
         /\ g_received_signal = Cardinality(Acknowledged)
         /\ \A m \in threads :
              hist.spill[m] = hist.barrier /\ hist.ack[m] = hist.barrier
    /\ \A m \in Mutators : hist.ack[m] <= hist.spill[m]

\* The collector is at the fork of a second cycle, with mutators signalled.
C3_Witness ==
    /\ gpc = "fork"
    /\ hist.barrier >= 2
    /\ sig_count >= 2

\* C4: over any number of cycles, a mutator that entered the handler for a
\* cycle does not return from it before the collector has forked for that
\* cycle and advanced g_cleanup_counter; at every fork all the signalled
\* mutators are parked in the handler.
C4_ParkedUntilFork ==
    /\ g_cleanup_counter <= hist.forks
    /\ \A m \in Mutators : mpc[m] = "run" => hist.left[m] >= hist.entered[m]
    /\ gpc = "fork" => \A m \in threads : mpc[m] = "park"

\* A mutator has returned from the handler of a second cycle.
C4_Witness ==
    \E m \in threads :
        mpc[m] = "run" /\ hist.entered[m] >= 2 /\ hist.left[m] >= 2

\* The fork of the running cycle has succeeded.
Forked == hist.forks = hist.barrier /\ hist.forks > 0

\* C5: under fair scheduling, when fork() succeeded every mutator parked in
\* the handler is released in the end (unless the process is stopped): the
\* collector advances g_cleanup_counter after the fork and the mutator then
\* returns; and the collector does not wait for acknowledgements forever.
C5_BarrierLive ==
    /\ \A m \in Mutators :
         (mpc[m] = "park" /\ Forked) ~> (mpc[m] = "run" \/ ~Running)
    /\ (gpc = "cleanup") ~> (g_cleanup_counter = hist.forks)
    /\ (gpc = "wait") ~> (gpc = "fork")

\* Every signalled mutator is back at work while the sweep of the cycle runs.
C5_Witness ==
    /\ gpc = "join"
    /\ sig_count >= 2
    /\ \A m \in threads : mpc[m] = "run" /\ hist.left[m] = hist.barrier

\* The parent is in the sweep of the cycle or past it.
Sweeping == gpc \in {"sweep", "join", "redistribute"}

\* C11: in every cycle the parent starts the sweep only after the child's
\* message was read from the pipe, so the scan is over (every increment of
\* refs was made) before any sweep worker runs; when the message does not
\* arrive, the sweep never runs.
C11_SweepAfterMessage ==
    /\ Sweeping => child = "exited" /\ hist.reads = hist.forks
    /\ worker # << >> => child = "exited"
    /\ child \in {"scanning", "scanned", "dead"} =>
         /\ gpc \in {"cleanup", "read"}
         /\ hist.reads < hist.forks
         /\ hist.claims = 0 /\ hist.frees = 0

\* Sweep workers run in a second cycle, after the second message was read.
C11_Witness ==
    /\ gpc = "join"
    /\ hist.reads = 2
    /\ \E t \in DOMAIN worker : worker[t].pc = "unref"

\* The child died, the parent found the pipe at end of file and stopped.
C11_WitnessNoMessage == child = "dead" /\ fatal = "read"

\* The dataset of the cycle is the two blocks a and b, each retired once,
\* the one word of a holds b and that of b holds a, and no stack holds either.
MutualPair(a, b) ==
    /\ a < b
    /\ hist.dataset = ArrayOf(<<a, b>>)
    /\ hist.heap[a][0] = b /\ hist.heap[b][0] = a
    /\ roots = {}

\* C12: two retired blocks that reference each other and are referenced
\* from no stack are both freed by the sweep, in one pass.
C12_MutualPairFreed ==
    \A a, b \in Pool :
        gpc = "redistribute" /\ MutualPair(a, b) =>
            freed[a] = 1 /\ freed[b] = 1 /\ iters = 1

(***************************************************************************)
(* A linked chain: every block holds the address of the next one.          *)
(***************************************************************************)
\* The orders in which the blocks of the chain may be linked: c[1] is the
\* head, c[ChainLength] the tail.
ChainOrders ==
    {c \in [1..ChainLength -> Blocks(ChainLength)] :
        \A j, k \in 1..ChainLength : j # k => c[j] # c[k]}

\* The block that follows block a in the chain c, 0 after the tail.
ChainNext(c, a) ==
    IF \E k \in 1..(ChainLength - 1) : c[k] = a
    THEN c[(CHOOSE k \in 1..(ChainLength - 1) : c[k] = a) + 1]
    ELSE 0

\* The mutators retire the blocks of one chain, laid out in memory in any
\* order; no stack holds one of them.
InitChain ==
    /\ InitCommon
    /\ threads = {}
    /\ ptrs_per_thread = ChainLength
    /\ pool = Blocks(ChainLength)
    /\ \E c \in ChainOrders : words = [a \in Pool |-> {ChainNext(c, a)}]
    /\ stacks = {}
    /\ budget = ChainLength

SpecChain == InitChain /\ [][NextCycle]_vars

Ceil(k, d) == (k + d - 1) \div d

\* The dataset of the cycle is one whole chain, each block retired once.
WholeChain ==
    /\ DOMAIN hist.dataset = 0..(ChainLength - 1)
    /\ {hist.dataset[i] : i \in DOMAIN hist.dataset} = Blocks(ChainLength)
    /\ \E c \in ChainOrders :
         \A a \in Blocks(ChainLength) : \A k \in 0..(WordsPerBlock - 1) :
             hist.heap[a][k] = ChainNext(c, a)
    /\ roots = {}

\* The sweep loop of the cycle has ended.
SweepOver == gpc = "redistribute"

\* C13: when the dataset is a linked chain longer than the depth cap, held by
\* nothing else, the sweep loop frees every block of it whatever the layout
\* of the chain in memory, in at most ceil(K / (depth + 1)) passes: a claim
\* of address_range frees the claimed block and up to depth blocks behind it.
C13_ChainFreed ==
    SweepOver /\ WholeChain /\ ChainLength > UNREF_DEPTH =>
        /\ \A a \in Blocks(ChainLength) : freed[a] = 1
        /\ working_data.n_addrs = 0
        /\ iters >= 1
        /\ iters <= Ceil(ChainLength, UNREF_DEPTH + 1)

\* The depth cap stopped the first pass: the chain is freed in two passes.
C13_Witness ==
    /\ SweepOver /\ WholeChain /\ ChainLength > UNREF_DEPTH
    /\ iters = 2
    /\ \A a \in Blocks(ChainLength) : freed[a] = 1

\* C13 as stated: the loop takes ceil(K / depth) passes for any layout.
C13_ChainPasses ==
    SweepOver /\ WholeChain /\ ChainLength > UNREF_DEPTH =>
        /\ \A a \in Blocks(ChainLength) : freed[a] = 1
        /\ iters = Ceil(ChainLength, UNREF_DEPTH)

\* The number of entries of the batches of list that hold block a.
Entries(list, a) ==
    Cardinality({k \in DOMAIN copy_addrs(list) : copy_addrs(list)[k] = a})

\* The step that ends a cycle: garbage_collect returns.
CycleEnds == gpc = "redistribute" /\ gpc' = "idle"

\* The candidates of the cycle a stack of the snapshot refers to.
OnStack == {a \in Candidates([addrs |-> hist.dataset,
                              n_addrs |-> Cardinality(DOMAIN hist.dataset)]) :
               \E r \in roots : PTR_MASK(r) = a}

\* No block of the dataset held, at the fork, the address of a candidate.
NoInnerReference ==
    \A i \in DOMAIN hist.dataset : \A k \in 0..(WordsPerBlock - 1) :
        \A j \in DOMAIN hist.dataset :
            PTR_MASK(hist.heap[hist.dataset[i]][k]) # hist.dataset[j]

\* The candidates are freed in the cycle or kept, once, in the carry-over.
FreedOrRequeued ==
    /\ \A i \in DOMAIN hist.dataset :
         LET a == hist.dataset[i]
             f == freed[a] - hist.freed[a]
             q == Entries(g_uncollected_data'.chain, a)
         IN  \/ f = 1 /\ q = 0
             \/ f = 0 /\ q = 1
    /\ NoInnerReference =>
         /\ hist.frees = Cardinality(DOMAIN hist.dataset) - Cardinality(OnStack)
         /\ \A a \in Pool : Entries(g_uncollected_data'.chain, a) =
                               IF a \in OnStack THEN 1 ELSE 0

\* C14: at the end of a cycle every candidate of the dataset was freed in the
\* sweep or is held exactly once by the carry-over batches, never both and
\* never neither; with R of N candidates on a stack and no reference between
\* candidates, N - R blocks are freed and the R referenced ones are kept.
C14_FreedOrRequeued == [][CycleEnds => FreedOrRequeued]_vars

\* The same, of cycles whose candidates were each retired once.
C14_RetiredOnce == [][CycleEnds /\ ~RetiredTwice => FreedOrRequeued]_vars

\* The collector is between two cycles, after at least one.
BetweenCycles == gpc = "idle" /\ hist.forks > 0 /\ Running

\* C15: after every cycle, begun with carry-over batches or without, the
\* carry-over pointer is the first batch holding survivors, or null when no
\* candidate survived, and every batch reachable from it is still mapped:
\* the pointer is never left on a batch the cycle released, no cycle stops
\* on it, and no later cycle follows it into released memory.
C15_CarryOverValid ==
    /\ g_uncollected_data.ptr # "dangling"
    /\ fatal \notin {"assert g_uncollected_data", "segv", "hang"}
    /\ BetweenCycles =>
         IF g_uncollected_data.ptr = "valid"
         THEN /\ g_uncollected_data.chain # <<>>
              /\ \A k \in DOMAIN g_uncollected_data.chain :
                   g_uncollected_data.chain[k].n_addrs > 0
         ELSE g_uncollected_data = NullPtr

(***************************************************************************)
(* The hand-over of batches: the mutators retire at any moment.            *)
(***************************************************************************)
\* The mutators pass batches of one block each, also while a cycle runs.
InitQueue ==
    /\ InitCommon
    /\ threads = {}
    /\ ptrs_per_thread = 1
    /\ pool = Blocks(QueueBatches)
    /\ words = [a \in Pool |-> {0, 2 * MaxBlocks}]
    /\ stacks = Pool
    /\ budget = QueueBatches

NextQueue ==
    \/ forkgc_initiate_collection
    \/ Collector
    \/ threadscan_child \/ ChildReport \/ ChildDies
    \/ \E t \in 0..(MAX_THREADS - 1) : Sweeper(t)

SpecQueue == InitQueue /\ [][NextQueue]_vars

FairQueue == SpecQueue /\ Fairness

\* Every batch passed so far is in g_gc_data or was handed to
\* garbage_collect, and none twice.
EachBatchOnce == hist.handed + Len(g_gc_data) = hist.passed

\* The process was stopped by the system: fork failed or the child died.
SystemFailure == fatal \in {"fork", "read"}

\* C16: every batch passed to forkgc_initiate_collection, whether the
\* collector was waiting on the condition or running a cycle, is in the end
\* detached and handed to garbage_collect, exactly once (unless fork fails or
\* the child dies).
C16_EveryBatchHanded ==
    /\ [] EachBatchOnce
    /\ \A n \in 1..QueueBatches :
         (hist.passed >= n) ~> (hist.handed >= n \/ SystemFailure)

\* The same, unless the process stops for whatever reason.
C16_HandedUnlessStopped ==
    /\ [] EachBatchOnce
    /\ \A n \in 1..QueueBatches :
         (hist.passed >= n) ~> (hist.handed >= n \/ ~Running)

\* Every entry of the dataset is referenced.
AllRefsPositive ==
    /\ working_data.n_addrs > 0
    /\ \A i \in 0..(working_data.n_addrs - 1) : working_data.refs[i] > 0

\* A pass of the sweep is about to start or is running.
InPass == gpc \in {"sweep", "join"}

\* A step of a pass that changes nothing of the dataset and frees nothing;
\* the step that ends the pass ends the loop (savings = 0).
PassLeavesAll ==
    /\ working_data'.addrs = working_data.addrs
    /\ working_data'.refs = working_data.refs
    /\ working_data'.alloc_sz = working_data.alloc_sz
    /\ working_data'.n_addrs = working_data.n_addrs
    /\ freed' = freed /\ mem' = mem
    /\ hist'.claims = hist.claims /\ hist'.frees = hist.frees
    /\ gpc' \in {"join", "redistribute"}
    /\ gpc = "sweep" => gpc' = "join"

\* C17: the sweep run on a dataset whose refs are all positive ends after
\* that one pass with savings 0, frees nothing, and leaves addrs, refs,
\* alloc_sz and n_addrs as they were.
C17_ReferencedUntouched ==
    [][InPass /\ AllRefsPositive => PassLeavesAll]_vars

\* The loop ended after one pass over a dataset that was referenced
\* throughout: nothing was claimed or freed.
C17_Witness ==
    /\ gpc = "redistribute" /\ iters = 1
    /\ AllRefsPositive
    /\ working_data.n_addrs = 2
    /\ hist.claims = 0 /\ hist.frees = 0
    /\ DOMAIN hist.dataset = DOMAIN working_data.addrs
    /\ \A i \in DOMAIN hist.dataset : hist.dataset[i] = working_data.addrs[i]

(***************************************************************************)
(* util.c: a caller sorts an array, sorts it again, and compacts it.       *)
(***************************************************************************)
\* Every array of up to MaxExhaustive elements with values 0..MaxValue.
SmallArrays ==
    UNION {[0..(n - 1) -> 0..MaxValue] : n \in 0..MaxExhaustive}

\* The arrays (o + s * i + q * i * i) % m of up to MaxLength elements: equal
\* elements, ascending runs, runs that wrap around, and scattered values.
PatternArrays ==
    {[i \in 0..(n - 1) |-> (o + s * i + q * i * i) % m] :
        n \in 0..MaxLength, m \in 1..MaxModulus,
        s \in 0..(MaxModulus - 1), o \in 0..(MaxModulus - 1),
        q \in 0..(MaxModulus - 1)}

InitUtil ==
    /\ InitProcess
    /\ registry = NoRegistry
    /\ stash = NoStash
    /\ threads = {}
    /\ ptrs_per_thread = 1
    /\ pool = {}
    /\ words = [b \in Pool |-> {0}]
    /\ stacks = {}
    /\ budget = 0
    /\ \E arr \in SmallArrays \cup PatternArrays :
         util = [pc |-> "unsorted", a |-> arr,
                 length |-> Cardinality(DOMAIN arr),
                 before |-> arr, input |-> arr, savings |-> 0]

UtilUnchanged ==
    UNCHANGED <<registry, stash, ndebug, threads, ptrs_per_thread, pool, words, stacks, fatal,
                budget, heapVars, g_gc_data, g_gc_waiting, g_uncollected_data,
                gc_data, working_data, gpc, sweepVars, barrierVars,
                mutatorVars, childVars, hist>>

\* forkgc_util_sort(a, length) is called, on a new array or on a sorted one.
Sort ==
    /\ util.pc \in {"unsorted", "sorted"}
    /\ util' = [util EXCEPT !.pc = "sorted",
                            !.before = util.a,
                            !.a = forkgc_util_sort(util.a, util.length)]
    /\ UtilUnchanged

\* forkgc_util_compact(a, length) is called on the sorted array.
Compact ==
    /\ util.pc = "sorted"
    /\ LET r == forkgc_util_compact(util.a, util.length)
       IN  util' = [util EXCEPT !.pc = "compacted",
                                !.before = util.a,
                                !.a = r.a,
                                !.savings = r.savings]
    /\ UtilUnchanged

NextUtil == Sort \/ Compact

SpecUtil == InitUtil /\ [][NextUtil]_vars

\* a[0..n-1] is in ascending order.
Ascending(arr, n) == \A i \in 1..(n - 1) : arr[i - 1] <= arr[i]

\* The number of elements of arr[0..n-1] equal to v.
Count(arr, n, v) == Cardinality({i \in 0..(n - 1) : arr[i] = v})

\* a[0..n-1] and b[0..n-1] hold the same values the same number of times.
Permutation(arr, brr, n) ==
    /\ DOMAIN arr = DOMAIN brr
    /\ \A i \in 0..(n - 1) : Count(arr, n, arr[i]) = Count(brr, n, arr[i])
    /\ \A i \in 0..(n - 1) : Count(arr, n, brr[i]) = Count(brr, n, brr[i])

\* C18: forkgc_util_sort leaves the array an ascending permutation of what
\* it was given, for every length (0, 1, up to and above the threshold of
\* insertion sort) and content (equal elements too), and leaves an array
\* that was in ascending order as it was.
C18_SortedPermutation ==
    util.pc = "sorted" =>
        /\ Ascending(util.a, util.length)
        /\ Permutation(util.a, util.before, util.length)
        /\ Ascending(util.before, util.length) => util.a = util.before

\* An array longer than the threshold, with equal elements and not in
\* order, has been sorted: quicksort partitioned it.
C18_Witness ==
    /\ util.pc = "sorted"
    /\ util.length - 1 > SORT_THRESHOLD
    /\ ~Ascending(util.before, util.length)
    /\ \E i, j \in 0..(util.length - 1) : i # j /\ util.before[i] = util.before[j]
    /\ util.a # util.before

\* The slots of arr[0..n-1] that hold a value for the first time.
FirstSlots(arr, n) ==
    {i \in 0..(n - 1) : \A j \in 0..(i - 1) : arr[j] # arr[i]}

\* The k-th distinct value of arr[0..n-1], k from 0, in the order of arr.
DistinctValue(arr, n, k) ==
    arr[CHOOSE i \in FirstSlots(arr, n) :
            Cardinality({j \in FirstSlots(arr, n) : j < i}) = k]

\* C19: forkgc_util_compact on a sorted array of length n returns the number
\* of duplicate entries it removed and leaves the distinct values, in their
\* order, in the first n - savings slots; on an array without duplicates it
\* returns 0 and leaves the array as it was.
C19_CompactDistinct ==
    util.pc = "compacted" =>
        LET n == util.length
            distinct == Cardinality(FirstSlots(util.before, n))
        IN  /\ util.savings = n - distinct
            /\ DOMAIN util.a = DOMAIN util.before
            /\ \A k \in 0..(n - util.savings - 1) :
                 util.a[k] = DistinctValue(util.before, n, k)
            /\ distinct = n => util.savings = 0 /\ util.a = util.before

\* Duplicates were removed from a sorted array and values were moved down.
C19_Witness ==
    /\ util.pc = "compacted"
    /\ Ascending(util.before, util.length)
    /\ util.savings >= 2
    /\ util.length - util.savings >= 3
    /\ util.a # util.before

\* An array without duplicates was compacted.
C19_WitnessDistinct ==
    /\ util.pc = "compacted"
    /\ util.length >= 3
    /\ util.savings = 0
    /\ util.a = util.before

\* The references the scan counted for block b, over the slots that hold b.
RECURSIVE SumRefs(_, _)
SumRefs(b, i) ==
    IF i \notin DOMAIN hist.dataset THEN 0
    ELSE (IF hist.dataset[i] = b THEN hist.scan[i] ELSE 0) + SumRefs(b, i + 1)

\* The words of the blocks of S, in the snapshot, that hold the address of b;
\* a block is counted once for every slot that holds it.
WordsFrom(S, b) ==
    Cardinality({ik \in (DOMAIN hist.dataset) \X (0..(WordsPerBlock - 1)) :
                    /\ hist.dataset[ik[1]] \in S
                    /\ PTR_MASK(hist.heap[hist.dataset[ik[1]]][ik[2]]) = b})

\* The least set that holds every candidate the scan left unreferenced and
\* every candidate whose counted references all come from blocks of the set.
RECURSIVE RefClosure(_)
RefClosure(S) ==
    LET cands == {hist.dataset[i] : i \in DOMAIN hist.dataset}
        T == S \cup {b \in cands : SumRefs(b, 0) = WordsFrom(S, b)}
    IN  IF T = S THEN S ELSE RefClosure(T)

\* The blocks freed in the cycle.
FreedInCycle == {b \in Pool : freed[b] > hist.freed[b]}

RefComputation ==
    /\ FreedInCycle = RefClosure({})
    /\ \A i \in 0..(working_data.n_addrs - 1) : working_data.refs[i] # 0

\* C20: when the loop of sweep passes ends, the blocks freed are exactly
\* those of the reference computation (the least set holding the candidates
\* with refs = 0 after the scan and those all of whose counted references
\* are words of blocks of the set), and no surviving entry has refs = 0,
\* whatever the workers and their interleaving.
C20_FreedIsClosure == SweepOver => RefComputation

\* The same, of cycles whose candidates were each retired once.
C20_RetiredOnce == SweepOver /\ ~RetiredTwice => RefComputation

(***************************************************************************)
(* The sweep loop ends.                                                    *)
(***************************************************************************)
\* The chain workload with a fair scheduler.
FairChain == SpecChain /\ Fairness

\* N, the candidates of the cycle: the entries of the aggregated dataset.
NumCandidates == Cardinality(DOMAIN hist.dataset)

\* The calls of unref_addr a worker is in: the first was made by
\* address_range with the depth cap, each further one with one less, none
\* with less than 0.
DepthBounded ==
    \A t \in DOMAIN worker :
        /\ Len(worker[t].stack) <= UNREF_DEPTH + 1
        /\ \A k \in 1..Len(worker[t].stack) :
               worker[t].stack[k].max_depth = UNREF_DEPTH - (k - 1)

\* The entries of the dataset that are marked collected.
Marked == {i \in 0..(working_data.n_addrs - 1) : LowBit(working_data.addrs[i]) = 1}

\* The step that ends a pass: n_addrs shrinks by the savings of the pass,
\* and another pass follows iff something was saved and something is left.
PassEnds ==
    gpc = "join" /\ gpc' # "join" =>
        LET savings == Cardinality(Marked)
        IN  /\ working_data'.n_addrs = working_data.n_addrs - savings
            /\ savings > 0 => working_data'.n_addrs < working_data.n_addrs
            /\ gpc' = IF savings > 0 /\ working_data'.n_addrs > 0
                      THEN "sweep" ELSE "redistribute"

\* C21: the sweep loop ends for every dataset: a pass that saved something
\* leaves fewer entries, the loop stops after the first pass that saved
\* nothing or emptied the list, no call of unref_addr is more than 30 levels
\* (UNREF_DEPTH) below the claim of address_range, at most N + 1 passes run
\* for N candidates, and a loop that was started is left unless the process
\* stops.
C21_SweepTerminates ==
    /\ [](DepthBounded)
    /\ [](InPass \/ SweepOver => iters <= NumCandidates + 1)
    /\ [][PassEnds]_vars
    /\ InPass ~> (SweepOver \/ ~Running)

\* The depth cap refused a recursion (a block whose counter fell to 0 is
\* left to the next pass), and the loop ended after a second pass.
C21_Witness ==
    /\ SweepOver /\ iters = 2 /\ working_data.n_addrs = 0
    /\ NumCandidates = ChainLength
    /\ hist.frees = ChainLength
(***************************************************************************)
(* The condition wait of the collector thread.                             *)
(***************************************************************************)
\* Line 456: pthread_cond_wait returns although no thread signalled the
\* condition, which POSIX allows; the queue is as empty as it was.
SpuriousWakeup ==
    /\ Running /\ gpc = "cond_wait"
    /\ hist.wakeups < MaxSpurious
    /\ gpc' = "woken"
    /\ hist' = [hist EXCEPT !.wakeups = @ + 1]
    /\ UNCHANGED <<buildVars, fatal, budget, heapVars, g_gc_data, g_gc_waiting,
                   g_uncollected_data, gc_data, working_data, sweepVars,
                   barrierVars, mutatorVars, childVars>>

\* The mutators pass batches of one block each, also while a cycle runs or
\* the collector waits.
InitWake ==
    /\ InitCommon
    /\ threads = {}
    /\ ptrs_per_thread = 1
    /\ pool = Blocks(WakeBatches)
    /\ words = [a \in Pool |-> {0, 2 * WakeBatches}]
    /\ stacks = Pool
    /\ budget = WakeBatches

\* The steps of SpecQueue, on a system where pthread_cond_wait may return
\* without a signal.
NextWake ==
    \/ NextQueue
    \/ SpuriousWakeup

SpecWake == InitWake /\ [][NextWake]_vars

\* The collector has left the condition wait, or found work without waiting,
\* and is about to call garbage_collect(gc_data).
Detached == gpc = "aggregate"

\* C22: the collector thread goes past its condition wait only when the
\* incoming queue is non-empty, also after a wake-up no enqueue caused: the
\* chain it hands to garbage_collect is never empty, and an empty queue found
\* after the wait is not an error.
C22_DetachNonEmpty ==
    /\ Detached => gc_data # <<>>
    /\ fatal # "assert g_gc_data"

\* What the collector does do: a chain it detaches is the whole queue, taken
\* in one step that leaves the queue empty.
C22_DetachWhole ==
    [][(gpc # "aggregate" /\ gpc' = "aggregate") =>
          (gc_data' = g_gc_data /\ g_gc_data' = <<>>)]_vars
(***************************************************************************)
(* util.c: the thread records and the thread list.                         *)
(*                                                                         *)
(* The callers are not part of util.c.  Every record belongs to a thread   *)
(* that registers it, and on its exit takes it out of the thread list and  *)
(* gives up its reference; the thread that joins it then calls             *)
(* forkgc_util_thread_data_cleanup with its id.  td->next links both the   *)
(* thread list and the list of staged records, so a record leaves the      *)
(* first list before it can enter the second.  A walker looks up the       *)
(* record whose stack holds an address, reads the stack, and gives the     *)
(* reference back.  Record r stands for the thread, its id, and the        *)
(* addresses of its stack.                                                 *)
(***************************************************************************)
Records == 1..MaxRecords
Walkers == 1..MaxWalkers

\* The sequence s without its element r.
Without(s, r) == SelectSeq(s, LAMBDA x : x # r)

InRegistry(r) == \E k \in 1..Len(registry.tl.head) : registry.tl.head[k] = r
Staged(r) ==
    \E k \in 1..Len(registry.g_td_staged_to_free) :
        registry.g_td_staged_to_free[k] = r

RegistryUnchanged ==
    UNCHANGED <<util, stash, ndebug, threads, ptrs_per_thread, pool, words,
                stacks, budget, heapVars, g_gc_data, g_gc_waiting,
                g_uncollected_data, gc_data, working_data, gpc, sweepVars,
                barrierVars, mutatorVars, childVars, hist>>

\* No thread is registered yet.
InitRegistry ==
    /\ InitProcess
    /\ util = NoCall
    /\ stash = NoStash
    /\ threads = {}
    /\ ptrs_per_thread = 1
    /\ pool = {}
    /\ words = [b \in Pool |-> {0}]
    /\ stacks = {}
    /\ budget = 0
    /\ registry = [tl |-> [head |-> <<>>, count |-> 0],
                   td |-> [r \in Records |-> [ref_count |-> 0, mapped |-> FALSE]],
                   g_td_staged_to_free |-> <<>>,
                   owner |-> [r \in Records |-> "unborn"],
                   joiner |-> [r \in Records |-> "join"],
                   walker |-> [w \in Walkers |-> [pc |-> "idle", ret |-> 0]],
                   staged |-> [r \in Records |-> 0]]

\* forkgc_util_thread_data_new and forkgc_util_thread_list_add, by the new
\* thread: the record starts with the reference of its thread.
forkgc_util_thread_list_add(r) ==
    /\ Running /\ registry.owner[r] = "unborn"
    /\ registry' = [registry EXCEPT
                      !.td[r] = [ref_count |-> 1, mapped |-> TRUE],
                      !.tl.head = <<r>> \o @,
                      !.tl.count = @ + 1,
                      !.owner[r] = "live"]
    /\ UNCHANGED fatal
    /\ RegistryUnchanged

\* forkgc_util_thread_list_remove(tl, td), by the exiting thread.
forkgc_util_thread_list_remove(r) ==
    /\ Running /\ registry.owner[r] = "live"
    /\ IF ~ndebug /\ (~InRegistry(r) \/ ~(registry.tl.count > 0))
       THEN /\ fatal' = "assert tl"
            /\ UNCHANGED registry
       ELSE /\ registry' = [registry EXCEPT
                              !.tl.head = Without(@, r),
                              !.tl.count = @ - 1,
                              !.owner[r] = "removed"]
            /\ UNCHANGED fatal
    /\ RegistryUnchanged

\* Line 78: __sync_fetch_and_sub(&td->ref_count, 1) and the test of its
\* result; whoever brings the counter to 0 goes on to stage the record.
fetch_and_sub(r) == registry.td[r].ref_count - 1

StagesAtZero(remaining) == remaining = 0

\* Lines 79-82, one critical section of g_staged_lock.
stage(reg, r) ==
    [reg EXCEPT !.g_td_staged_to_free = <<r>> \o @,
                !.staged[r] = @ + 1]

\* forkgc_util_thread_data_decr_ref(td), by the exiting thread.
OwnerDecrRef(r) ==
    /\ Running /\ registry.owner[r] = "removed"
    /\ registry' = [registry EXCEPT
                      !.td[r].ref_count = @ - 1,
                      !.owner[r] = IF StagesAtZero(fetch_and_sub(r))
                                   THEN "stage" ELSE "exited"]
    /\ UNCHANGED fatal
    /\ RegistryUnchanged

OwnerStage(r) ==
    /\ Running /\ registry.owner[r] = "stage"
    /\ registry' = [stage(registry, r) EXCEPT !.owner[r] = "exited"]
    /\ UNCHANGED fatal
    /\ RegistryUnchanged

\* forkgc_util_thread_list_find(tl, addr), one critical section of tl->lock;
\* addr lies in the stack of record a.  The walker starts over when no
\* record of the list holds addr.
forkgc_util_thread_list_find(w, a) ==
    /\ Running /\ registry.walker[w].pc = "idle"
    /\ InRegistry(a)
    /\ registry' = [registry EXCEPT
                      !.td[a].ref_count = @ + 1,
                      !.walker[w] = [pc |-> "holding", ret |-> a]]
    /\ UNCHANGED fatal
    /\ RegistryUnchanged

\* forkgc_util_thread_data_decr_ref(td), by the walker that is done with the
\* stack of the record.
WalkerDecrRef(w) ==
    /\ Running /\ registry.walker[w].pc = "holding"
    /\ LET r == registry.walker[w].ret
       IN  registry' = [registry EXCEPT
                          !.td[r].ref_count = @ - 1,
                          !.walker[w].pc = IF StagesAtZero(fetch_and_sub(r))
                                           THEN "stage" ELSE "idle",
                          !.walker[w].ret = IF StagesAtZero(fetch_and_sub(r))
                                            THEN r ELSE 0]
    /\ UNCHANGED fatal
    /\ RegistryUnchanged

WalkerStage(w) ==
    /\ Running /\ registry.walker[w].pc = "stage"
    /\ registry' = [stage(registry, registry.walker[w].ret) EXCEPT
                      !.walker[w] = [pc |-> "idle", ret |-> 0]]
    /\ UNCHANGED fatal
    /\ RegistryUnchanged

\* forkgc_util_thread_data_cleanup(tid), lines 103-116, one critical section
\* of g_staged_lock, by the thread that joined thread r: the record is looked
\* for in the staged list.  When it is not there the walk ends on a null
\* pointer, which an assert catches, or which is read through.
CleanupSearch(r) ==
    /\ Running /\ registry.joiner[r] = "join" /\ registry.owner[r] = "exited"
    /\ IF ~Staged(r)
       THEN /\ fatal' = IF ndebug THEN "segv" ELSE "assert td"
            /\ UNCHANGED registry
       ELSE /\ registry' = [registry EXCEPT
                              !.g_td_staged_to_free = Without(@, r),
                              !.joiner[r] = "check"]
            /\ UNCHANGED fatal
    /\ RegistryUnchanged

\* Lines 118-121
CleanupCheck(r) ==
    /\ Running /\ registry.joiner[r] = "check"
    /\ IF registry.td[r].ref_count > 0
       THEN /\ fatal' = "data race"
            /\ UNCHANGED registry
       ELSE /\ registry' = [registry EXCEPT !.joiner[r] = "free"]
            /\ UNCHANGED fatal
    /\ RegistryUnchanged

\* Lines 127 and 86-96: forkgc_util_thread_data_free(td)
forkgc_util_thread_data_free(r) ==
    /\ Running /\ registry.joiner[r] = "free"
    /\ IF ~ndebug /\ registry.td[r].ref_count # 0
       THEN /\ fatal' = "assert ref_count"
            /\ UNCHANGED registry
       ELSE /\ registry' = [registry EXCEPT !.td[r].mapped = FALSE,
                                            !.joiner[r] = "done"]
            /\ UNCHANGED fatal
    /\ RegistryUnchanged

NextRegistry ==
    \/ \E r \in Records :
         \/ forkgc_util_thread_list_add(r)
         \/ forkgc_util_thread_list_remove(r)
         \/ OwnerDecrRef(r) \/ OwnerStage(r)
         \/ CleanupSearch(r) \/ CleanupCheck(r)
         \/ forkgc_util_thread_data_free(r)
    \/ \E w \in Walkers :
         \/ \E a \in Records : forkgc_util_thread_list_find(w, a)
         \/ WalkerDecrRef(w) \/ WalkerStage(w)

SpecRegistry == InitRegistry /\ [][NextRegistry]_vars

\* The walkers that hold a reference to record r, from the return of
\* forkgc_util_thread_list_find to their call of decr_ref.
Holders(r) ==
    {w \in Walkers : registry.walker[w].pc = "holding" /\ registry.walker[w].ret = r}

\* No record is released while a walker holds a reference to it.
NotFreedWhileHeld ==
    \A r \in Records :
        registry.joiner[r] = "done" => Holders(r) = {}

\* A record is staged at most once, and with no reference left.
StagedOnce ==
    \A r \in Records :
        /\ registry.staged[r] <= 1
        /\ Staged(r) => registry.td[r].ref_count = 0

\* The registry stops the process with the data-race error only.
OnlyDataRace == fatal \in {"", "data race"}

\* C23: a thread record is never released while a walker holds a reference
\* to it: an exit that overlaps such a reference ends in the fatal data-race
\* error, and otherwise the record is staged exactly once, when its counter
\* reaches 0.
C23_ExitRaceDetected ==
    /\ NotFreedWhileHeld
    /\ StagedOnce
    /\ OnlyDataRace

\* What the code does keep: no record is released while held, and a record
\* is staged once, at counter 0.
C23_NeverFreedWhileHeld ==
    /\ NotFreedWhileHeld
    /\ StagedOnce
(***************************************************************************)
(* util.c: the stash of free lists.                                        *)
(*                                                                         *)
(* Free list l is pushed by one call of forkgc_util_push_free_list; the    *)
(* calls run in threads of their own.  The node of free list l is called l *)
(* too; 0 is NULL.                                                         *)
(***************************************************************************)
Lists == 1..MaxLists
Poppers == 1..MaxPoppers

StashUnchanged ==
    UNCHANGED <<util, registry, ndebug, fatal, threads, ptrs_per_thread, pool,
                words, stacks, budget, heapVars, g_gc_data, g_gc_waiting,
                g_uncollected_data, gc_data, working_data, gpc, sweepVars,
                barrierVars, mutatorVars, childVars, hist>>

\* The stash is empty and no call has been made.  Besides the program's
\* state stash records: pushed, the free lists in the order in which they
\* were linked in; taken, the free lists unlinked; returned[l], how often a
\* pop returned l; and for every popper the calls it made, what the last
\* one returned (ret), and whether the stash was empty at some moment of
\* the call (seen_empty).
InitStash ==
    /\ InitProcess
    /\ util = NoCall
    /\ registry = NoRegistry
    /\ threads = {}
    /\ ptrs_per_thread = 1
    /\ pool = {}
    /\ words = [b \in Pool |-> {0}]
    /\ stacks = {}
    /\ budget = 0
    /\ stash = [free_list_list |-> <<>>,
                push |-> [l \in Lists |-> "call"],
                pop |-> [q \in Poppers |->
                           [pc |-> "idle", node |-> 0, calls |-> 0,
                            ret |-> 0, seen_empty |-> FALSE]],
                pushed |-> <<>>,
                taken |-> {},
                returned |-> [l \in Lists |-> 0]]

\* The free lists that were linked in and not unlinked since, by the record
\* of the pushes and pops.
InStash(st) == {st.pushed[k] : k \in 1..Len(st.pushed)} \ st.taken

\* Every call of pop that is under way notes whether the stash is empty.
Observe(st) ==
    [st EXCEPT !.pop = [q \in Poppers |->
        IF st.pop[q].pc = "idle" THEN st.pop[q]
        ELSE [st.pop[q] EXCEPT !.seen_empty = @ \/ InStash(st) = {}]]]

\* Line 191: MALLOC(sizeof(free_list_node_t))
PushMalloc(l) ==
    /\ Running /\ stash.push[l] = "call"
    /\ stash' = [stash EXCEPT !.push[l] = "node"]
    /\ StashUnchanged

\* Lines 192-196 of forkgc_util_push_free_list, one critical section of
\* free_list_list_lock.
forkgc_util_push_free_list(l) ==
    /\ Running /\ stash.push[l] = "node"
    /\ stash' = [stash EXCEPT !.free_list_list = <<l>> \o @,
                              !.push[l] = "done",
                              !.pushed = Append(@, l)]
    /\ StashUnchanged

\* Line 204: the test made without the lock; the call returns NULL at once
\* when the head is NULL at this moment.
PopTest(q) ==
    /\ Running /\ stash.pop[q].pc = "idle"
    /\ stash.pop[q].calls < MaxPops
    /\ stash' = Observe([stash EXCEPT
                   !.pop[q] = [pc |-> IF stash.free_list_list = <<>>
                                      THEN "return" ELSE "lock",
                               node |-> 0,
                               calls |-> stash.pop[q].calls + 1,
                               ret |-> 0,
                               seen_empty |-> FALSE]])
    /\ StashUnchanged

\* A variant: the node at the end of the list is unlinked.
unlink_last(list) ==
    [node |-> list[Len(list)], rest |-> SubSeq(list, 1, Len(list) - 1)]

\* Lines 206-207: the head is unlinked.
unlink(list) == [node |-> Head(list), rest |-> Tail(list)]

\* Lines 205-208 of forkgc_util_pop_free_list, one critical section of
\* free_list_list_lock.
PopLocked(q) ==
    /\ Running /\ stash.pop[q].pc = "lock"
    /\ stash' = Observe(
         IF stash.free_list_list = <<>>
         THEN [stash EXCEPT !.pop[q].pc = "return"]
         ELSE LET u == unlink(stash.free_list_list)
              IN  [stash EXCEPT !.free_list_list = u.rest,
                                !.taken = @ \cup {u.node},
                                !.pop[q].node = u.node,
                                !.pop[q].pc = "return"])
    /\ StashUnchanged

\* Lines 209-213: the free list of the node is returned and the node is
\* freed; without a node NULL is returned.
PopReturn(q) ==
    /\ Running /\ stash.pop[q].pc = "return"
    /\ LET node == stash.pop[q].node
       IN  stash' = [stash EXCEPT
                       !.pop[q].pc = "idle",
                       !.pop[q].node = 0,
                       !.pop[q].ret = node,
                       !.returned = [l \in Lists |->
                                       IF l = node THEN @[l] + 1 ELSE @[l]]]
    /\ StashUnchanged

NextStash ==
    \/ \E l \in Lists : PushMalloc(l) \/ forkgc_util_push_free_list(l)
    \/ \E q \in Poppers : PopTest(q) \/ PopLocked(q) \/ PopReturn(q)

SpecStash == InitStash /\ [][NextStash]_vars

\* The number of places free list l is at: linked in the stash, held by a
\* popper that unlinked it, or returned by a pop.
Places(l) ==
    Cardinality({k \in 1..Len(stash.free_list_list) : stash.free_list_list[k] = l})
    + Cardinality({q \in Poppers : stash.pop[q].node = l})
    + stash.returned[l]

\* Every free list pushed is at one place: none is lost, none is returned
\* twice; a free list not pushed is nowhere.
EachListOnce ==
    \A l \in Lists :
        Places(l) = IF stash.push[l] = "done" THEN 1 ELSE 0

\* The position of free list l in the order of the pushes.
PushIndex(l) == CHOOSE k \in 1..Len(stash.pushed) : stash.pushed[k] = l

\* A step in which a popper unlinks a free list takes the one pushed last
\* among those in the stash.
TakesNewest ==
    \A q \in Poppers :
        stash'.pop[q].node # stash.pop[q].node /\ stash'.pop[q].node # 0 =>
            \A y \in InStash(stash) :
                PushIndex(y) <= PushIndex(stash'.pop[q].node)

\* A call that returned NULL saw the stash empty at some moment.
NullOnlyIfEmpty ==
    \A q \in Poppers :
        stash.pop[q].pc = "idle" /\ stash.pop[q].calls > 0
        /\ stash.pop[q].ret = 0 => stash.pop[q].seen_empty

\* C24: with concurrent callers of push_free_list and pop_free_list every
\* pushed free list is returned by one pop at most and is in the stash until
\* then, a pop takes the free list pushed last among those in the stash, and
\* a pop returns NULL only if the stash was empty at some moment of the call.
C24_StashIsStack ==
    /\ [] EachListOnce
    /\ [] NullOnlyIfEmpty
    /\ [][TakesNewest]_vars

\* Two free lists were pushed one after the other and were returned, the
\* second to popper 1 and the first to popper 2.
C24_Witness ==
    /\ Len(stash.pushed) >= 2
    /\ stash.returned[stash.pushed[1]] = 1
    /\ stash.returned[stash.pushed[2]] = 1
    /\ stash.pop[1].ret = stash.pushed[2] /\ stash.pop[1].pc = "idle"
    /\ stash.pop[2].ret = stash.pushed[1] /\ stash.pop[2].pc = "idle"

\* The first call of a popper returned NULL after the only free list pushed
\* had been unlinked by the other popper.
C24_WitnessNull ==
    \E q \in Poppers :
        /\ stash.pop[q].pc = "idle" /\ stash.pop[q].calls > 0
        /\ stash.pop[q].ret = 0 /\ stash.pop[q].seen_empty
        /\ stash.taken # {}
        /\ Len(stash.pushed) = 1
        /\ stash.pop[q].calls = 1
=============================================================================
